---------------------------- MODULE Spec2Model ----------------------------
(***************************************************************************)
(* Model of the PR-analysis backend: the response cache                    *)
(* (app/services/cache_service.py), the retrying Groq invoker             *)
(* (app/services/groq_service.py) and the /analyze endpoints               *)
(* (app/routers/analyze.py), with the request schema of app/models.py.     *)
(*                                                                         *)
(* Strings that the code only copies are TLA+ strings.  Strings the code   *)
(* slices or searches are sequences: a description is a sequence of        *)
(* characters, a filename the sequence of its '/'-separated components,    *)
(* an exception text a sequence of words, a completion text a sequence of  *)
(* tokens (code fences, whitespace, prose, JSON documents).                *)
(***************************************************************************)
EXTENDS Integers, Sequences, FiniteSets, TLC

VARIABLES
    now,          \* time.time(): the wall clock, in seconds
    cache,        \* CacheService._cache: key -> entry
    ret,          \* what the last cache call / endpoint call returned (with,
                  \* as history, the keys a get evicted or a set swept)
    lastSet,      \* history: key -> [at, data, by] of the last set for the key
    groq_service, \* the _groq_service singleton: "none" or "ready"
    api_key,      \* settings.GROQ_API_KEY is configured
    pc,           \* position of the request handler
    endpoint,     \* which endpoint the handler serves: "analyze" or "quick"
    pr_data,      \* the request the handler (or the cache call) is about
    max_retries,  \* GroqService.analyze_pr's max_retries
    attempt,      \* the loop variable of analyze_pr (0-based)
    last_error,   \* analyze_pr's last_error
    wait_time,    \* the delay of the pending time.sleep
    outcomes,     \* history: how each attempt of this invocation ended
    called,       \* history: what the provider did in the latest call
    sleeps,       \* history: the time.sleep calls of this invocation
    outcome,      \* what analyze_pr returned or raised
    args,         \* the inputs drawn for a check of one function
    tasks,        \* concurrent handlers: each handler coroutine's position and locals
    running,      \* the handler that holds the event loop's thread, or 0
    cache_calls   \* history: the CacheService methods the handler of the
                  \* current request has called, in order

vars == <<now, cache, ret, lastSet, groq_service, api_key, pc, endpoint,
          pr_data, max_retries, attempt, last_error, wait_time, outcomes,
          called, sleeps, outcome, args, tasks, running, cache_calls>>

cacheVars == <<cache, lastSet>>
invokeVars ==
    <<max_retries, attempt, last_error, wait_time, outcomes, called, sleeps,
      outcome>>

(***************************************************************************)
(* Bounds of the model and constants of the program.                       *)
(***************************************************************************)
Horizon == 1            \* the clock runs over Horizon TTL periods
MaxRetriesBound == 5    \* max_retries ranges over 1..MaxRetriesBound
MaxRetriesLive == 3     \* and over 1..MaxRetriesLive where termination is checked

TTL == 3600                  \* get_cache_service: CacheService(ttl_seconds=3600)
DefaultMaxRetries == 3       \* analyze_pr(..., max_retries: int = 3)
MaxFiles == 100              \* PRAnalyzeRequest.validate_files
MaxTitleLen == 500           \* PRAnalyzeRequest.title max_length
PurposeLen == 200            \* pr_data.description[:200]
FallbackFiles == 5           \* pr_data.files[:5]
SampleFiles == 3             \* pr_data.files[:3]
KeyLen == 16                 \* hexdigest()[:16]
GenericCap == 10             \* min(2 ** attempt, 10)
RateLimitCap == 30           \* min(2 ** (attempt + 2), 30)
LowBand == 50                \* total_changes < 50
MediumBand == 200            \* total_changes < 200
HighBand == 500              \* total_changes < 500
QuickFiles == 10             \* pr_data.files[:10]
QuickCommits == 5            \* pr_data.commits[:5]

NoValue == [none |-> TRUE]

\* The clock values the model visits: the ends of each TTL period and the
\* second after, so that ages of exactly TTL and TTL + 1 both occur.
ClockValues == {0} \cup UNION {{k * TTL, k * TTL + 1} : k \in 1..Horizon}

Min(a, b) == IF a < b THEN a ELSE b

RECURSIVE Pow2(_)
Pow2(n) == IF n <= 0 THEN 1 ELSE 2 * Pow2(n - 1)

\* s[:n]
Take(s, n) == SubSeq(s, 1, Min(n, Len(s)))

RECURSIVE SumOver(_, _)
\* sum(f.<field> for f in files)
SumOver(files, field) ==
    IF files = <<>> THEN 0 ELSE files[1][field] + SumOver(Tail(files), field)

RECURSIVE Join(_, _)
\* sep.join(parts), for a sequence of strings
Join(parts, sep) ==
    IF parts = <<>> THEN ""
    ELSE IF Len(parts) = 1 THEN parts[1]
    ELSE parts[1] \o sep \o Join(Tail(parts), sep)

\* a filename as the string the code holds
PathStr(filename) == Join(filename, "/")


(***************************************************************************)
(* app/models.py: the request and the analysis result.                     *)
(***************************************************************************)
\* PRFile
File(path, st, adds, dels, p) ==
    [filename |-> path, status |-> st, additions |-> adds, deletions |-> dels,
     patch |-> p]

\* PRAnalyzeRequest
Request(t, d, fs, cs, base, head) ==
    [title |-> t, description |-> d, files |-> fs, commits |-> cs,
     base_branch |-> base, head_branch |-> head]

\* PRContext: the eight required fields
ContextFields ==
    {"summary", "purpose", "testing_focus", "potential_risks", "affected_areas",
     "review_priority", "estimated_review_time", "key_changes"}

\* A schema that constrains the title and not the number of files
ValidRequestTitleOnly(r) ==
    /\ Len(r.title) >= 1
    /\ Len(r.title) <= MaxTitleLen

\* PRAnalyzeRequest's field constraints and validate_files: what FastAPI
\* checks before the handler body runs.
ValidRequest(r) ==
    /\ Len(r.title) >= 1
    /\ Len(r.title) <= MaxTitleLen
    /\ Len(r.files) >= 1
    /\ Len(r.files) <= MaxFiles

(***************************************************************************)
(* CacheService._generate_cache_key                                        *)
(***************************************************************************)
JsonStr(s) == "\"" \o s \o "\""

JsonList(strs) ==
    "[" \o Join([i \in 1..Len(strs) |-> JsonStr(strs[i])], ", ") \o "]"

\* json.dumps(cache_input, sort_keys=True): the keys in lexicographic order
JsonDumpsSorted(ci) ==
    "{" \o "\"files\": " \o ToString(ci.files)
        \o ", \"sample_files\": " \o JsonList(ci.sample_files)
        \o ", \"title\": " \o JsonStr(ci.title)
        \o ", \"total_additions\": " \o ToString(ci.total_additions)
        \o ", \"total_deletions\": " \o ToString(ci.total_deletions) \o "}"

\* hashlib.sha256(s.encode()).hexdigest()[:16].  The digest is modelled as a
\* collision-free function of the hashed string: the tagged string itself.
Sha256Hex16(s) == "sha256(" \o s \o ")[:" \o ToString(KeyLen) \o "]"

\* A key that reads the first file's additions and not their sum.
CacheInputPerFile(r) ==
    [title |-> r.title,
     files |-> Len(r.files),
     total_additions |-> IF r.files = <<>> THEN 0 ELSE r.files[1].additions,
     total_deletions |-> SumOver(r.files, "deletions"),
     sample_files |-> [i \in 1..Min(SampleFiles, Len(r.files)) |->
                          PathStr(r.files[i].filename)]]

CacheInput(r) ==
    [title |-> r.title,
     files |-> Len(r.files),
     total_additions |-> SumOver(r.files, "additions"),
     total_deletions |-> SumOver(r.files, "deletions"),
     sample_files |-> [i \in 1..Min(SampleFiles, Len(r.files)) |->
                          PathStr(r.files[i].filename)]]

GenerateCacheKey(r) == Sha256Hex16(JsonDumpsSorted(CacheInput(r)))

(***************************************************************************)
(* GroqService._create_fallback_context                                    *)
(***************************************************************************)
RECURSIVE TotalChanges(_)
\* sum(f.additions + f.deletions for f in pr_data.files)
TotalChanges(files) ==
    IF files = <<>> THEN 0
    ELSE files[1].additions + files[1].deletions + TotalChanges(Tail(files))

\* The bands with their upper ends included
FallbackBandInclusive(total_changes) ==
    IF total_changes <= LowBand
    THEN [review_time |-> "5-10 minutes", priority |-> "low"]
    ELSE IF total_changes <= MediumBand
    THEN [review_time |-> "15-25 minutes", priority |-> "medium"]
    ELSE IF total_changes <= HighBand
    THEN [review_time |-> "30-45 minutes", priority |-> "high"]
    ELSE [review_time |-> "1+ hours", priority |-> "critical"]

FallbackBand(total_changes) ==
    IF total_changes < LowBand
    THEN [review_time |-> "5-10 minutes", priority |-> "low"]
    ELSE IF total_changes < MediumBand
    THEN [review_time |-> "15-25 minutes", priority |-> "medium"]
    ELSE IF total_changes < HighBand
    THEN [review_time |-> "30-45 minutes", priority |-> "high"]
    ELSE [review_time |-> "1+ hours", priority |-> "critical"]

\* The fallback built from every file, not the first five
CreateFallbackContextAllFiles(r, raw_response) ==
    LET total_changes == TotalChanges(r.files)
        band == FallbackBand(total_changes)
        n == Len(r.files)
    IN  [summary |-> "This PR modifies " \o ToString(Len(r.files))
                       \o " files with " \o ToString(total_changes)
                       \o " total changes.",
         purpose |-> IF r.description # <<>>
                     THEN Take(r.description, PurposeLen)
                     ELSE <<"No description provided">>,
         testing_focus |-> <<"Test the modified functionality",
                             "Check for breaking changes",
                             "Verify edge cases">>,
         potential_risks |-> <<"Changes may affect existing functionality",
                               "Review for potential bugs">>,
         affected_areas |-> [i \in 1..n |-> r.files[i].filename[1]],
         review_priority |-> band.priority,
         estimated_review_time |-> band.review_time,
         key_changes |-> [i \in 1..n |->
                             PathStr(r.files[i].filename) \o " ("
                                 \o r.files[i].status \o ")"]]

\* A fallback that quotes the provider's text when there is no description
CreateFallbackContextQuotesRaw(r, raw_response) ==
    LET total_changes == TotalChanges(r.files)
        band == FallbackBand(total_changes)
        n == Min(FallbackFiles, Len(r.files))
    IN  [summary |-> "This PR modifies " \o ToString(Len(r.files))
                       \o " files with " \o ToString(total_changes)
                       \o " total changes.",
         purpose |-> IF r.description # <<>>
                     THEN Take(r.description, PurposeLen)
                     ELSE <<"No description provided">> \o raw_response,
         testing_focus |-> <<"Test the modified functionality",
                             "Check for breaking changes",
                             "Verify edge cases">>,
         potential_risks |-> <<"Changes may affect existing functionality",
                               "Review for potential bugs">>,
         affected_areas |-> [i \in 1..n |-> r.files[i].filename[1]],
         review_priority |-> band.priority,
         estimated_review_time |-> band.review_time,
         key_changes |-> [i \in 1..n |->
                             PathStr(r.files[i].filename) \o " ("
                                 \o r.files[i].status \o ")"]]

CreateFallbackContext(r, raw_response) ==
    LET total_changes == TotalChanges(r.files)
        band == FallbackBand(total_changes)
        n == Min(FallbackFiles, Len(r.files))
    IN  [summary |-> "This PR modifies " \o ToString(Len(r.files))
                       \o " files with " \o ToString(total_changes)
                       \o " total changes.",
         purpose |-> IF r.description # <<>>
                     THEN Take(r.description, PurposeLen)
                     ELSE <<"No description provided">>,
         testing_focus |-> <<"Test the modified functionality",
                             "Check for breaking changes",
                             "Verify edge cases">>,
         potential_risks |-> <<"Changes may affect existing functionality",
                               "Review for potential bugs">>,
         affected_areas |-> [i \in 1..n |-> r.files[i].filename[1]],
         review_priority |-> band.priority,
         estimated_review_time |-> band.review_time,
         key_changes |-> [i \in 1..n |->
                             PathStr(r.files[i].filename) \o " ("
                                 \o r.files[i].status \o ")"]]


(***************************************************************************)
(* CacheService: get, set, _cleanup_expired, clear, stats.  Each takes the *)
(* cache and the clock reading and gives the new cache and the result.     *)
(***************************************************************************)
EmptyCache == [k \in {} |-> NoValue]

Miss == [hit |-> FALSE]
Hit(data) == [hit |-> TRUE, data |-> data]

\* del self._cache[key]
Remove(c, key) == [k \in DOMAIN c \ {key} |-> c[k]]

\* self._cache[key] = entry
Put(c, key, entry) ==
    [k \in DOMAIN c \cup {key} |-> IF k = key THEN entry ELSE c[k]]

\* get without the expiry test
CacheGetNoExpiry(c, r, t) ==
    LET cache_key == GenerateCacheKey(r)
    IN  IF cache_key \notin DOMAIN c
        THEN [cache |-> c, value |-> Miss]
        ELSE [cache |-> c, value |-> Hit(c[cache_key].data)]

\* get that takes an entry of age TTL for expired
CacheGetStrict(c, r, t) ==
    LET cache_key == GenerateCacheKey(r)
    IN  IF cache_key \notin DOMAIN c
        THEN [cache |-> c, value |-> Miss]
        ELSE LET entry == c[cache_key]
                 age == t - entry.timestamp
             IN  IF age >= TTL
                 THEN [cache |-> Remove(c, cache_key), value |-> Miss]
                 ELSE [cache |-> c, value |-> Hit(entry.data)]

\* get that reports an expired entry absent and leaves it in the cache
CacheGetKeepsExpired(c, r, t) ==
    LET cache_key == GenerateCacheKey(r)
    IN  IF cache_key \notin DOMAIN c
        THEN [cache |-> c, value |-> Miss]
        ELSE LET entry == c[cache_key]
                 age == t - entry.timestamp
             IN  IF age > TTL
                 THEN [cache |-> c, value |-> Miss]
                 ELSE [cache |-> c, value |-> Hit(entry.data)]

\* get that renews the timestamp of the entry it returns
CacheGetTouches(c, r, t) ==
    LET cache_key == GenerateCacheKey(r)
    IN  IF cache_key \notin DOMAIN c
        THEN [cache |-> c, value |-> Miss]
        ELSE LET entry == c[cache_key]
                 age == t - entry.timestamp
             IN  IF age > TTL
                 THEN [cache |-> Remove(c, cache_key), value |-> Miss]
                 ELSE [cache |-> Put(c, cache_key, [entry EXCEPT !.timestamp = t]),
                       value |-> Hit(entry.data)]

\* get that removes every expired entry it finds, not only its own
CacheGetSweeps(c, r, t) ==
    LET cache_key == GenerateCacheKey(r)
        kept == [k \in {j \in DOMAIN c : t - c[j].timestamp <= TTL} |-> c[k]]
    IN  IF cache_key \notin DOMAIN c
        THEN [cache |-> c, value |-> Miss]
        ELSE LET entry == c[cache_key]
                 age == t - entry.timestamp
             IN  IF age > TTL
                 THEN [cache |-> kept, value |-> Miss]
                 ELSE [cache |-> c, value |-> Hit(entry.data)]

CacheGet(c, r, t) ==
    LET cache_key == GenerateCacheKey(r)
    IN  IF cache_key \notin DOMAIN c
        THEN [cache |-> c, value |-> Miss]
        ELSE LET entry == c[cache_key]
                 age == t - entry.timestamp
             IN  IF age > TTL
                 THEN [cache |-> Remove(c, cache_key), value |-> Miss]
                 ELSE [cache |-> c, value |-> Hit(entry.data)]

\* a sweep that also removes the entries of age exactly TTL
CleanupExpiredStrict(c, t) ==
    LET expired_keys == {k \in DOMAIN c : t - c[k].timestamp >= TTL}
    IN  [k \in DOMAIN c \ expired_keys |-> c[k]]

CleanupExpired(c, t) ==
    LET expired_keys == {k \in DOMAIN c : t - c[k].timestamp > TTL}
    IN  [k \in DOMAIN c \ expired_keys |-> c[k]]

\* set that keeps the timestamp of an entry it replaces
CacheSetKeepsTimestamp(c, r, context, t) ==
    LET cache_key == GenerateCacheKey(r)
        ts == IF cache_key \in DOMAIN c THEN c[cache_key].timestamp ELSE t
    IN  CleanupExpired(Put(c, cache_key,
                           [data |-> context, timestamp |-> ts,
                            pr_title |-> r.title]), t)

CacheSet(c, r, context, t) ==
    LET cache_key == GenerateCacheKey(r)
    IN  CleanupExpired(Put(c, cache_key,
                           [data |-> context, timestamp |-> t,
                            pr_title |-> r.title]), t)

CacheClear(c) == EmptyCache

\* stats(): the entries as a set (the order of the list is the dict's
\* insertion order, which the model does not keep)
CacheStats(c, t) ==
    [total_entries |-> Cardinality(DOMAIN c),
     ttl_seconds |-> TTL,
     entries |-> {[key |-> k, age_seconds |-> t - c[k].timestamp,
                   pr_title |-> c[k].pr_title] : k \in DOMAIN c}]


(***************************************************************************)
(* GroqService.analyze_pr: one iteration of the retry loop.                *)
(***************************************************************************)
\* Tokens of a completion text.  The fence tokens stand for the three
\* backquotes of a markdown code block.
WS == "\n"
FenceJson == "'''json"
Fence == "'''"

RECURSIVE LStrip(_)
LStrip(c) == IF c # <<>> /\ c[1] = WS THEN LStrip(Tail(c)) ELSE c

RECURSIVE RStrip(_)
RStrip(c) ==
    IF c # <<>> /\ c[Len(c)] = WS THEN RStrip(SubSeq(c, 1, Len(c) - 1)) ELSE c

\* str.strip()
Strip(c) == RStrip(LStrip(c))

\* Lines 220-226: remove markdown code blocks if present
StripFences(content) ==
    LET c1 == IF content # <<>> /\ content[1] = FenceJson
              THEN Tail(content) ELSE content
        c2 == IF c1 # <<>> /\ c1[1] = Fence THEN Tail(c1)
              ELSE IF c1 # <<>> /\ c1[1] = FenceJson THEN <<"json">> \o Tail(c1)
              ELSE c1
        c3 == IF c2 # <<>> /\ c2[Len(c2)] = Fence
              THEN SubSeq(c2, 1, Len(c2) - 1) ELSE c2
    IN  Strip(c3)

\* The JSON documents a completion can hold, by name, and what json.loads
\* decodes each to.  Any other token is not JSON.
ProviderContext(id, priority) ==
    [summary |-> id,
     purpose |-> <<"Fixes the null check">>,
     testing_focus |-> <<"Open an untitled file">>,
     potential_risks |-> <<"sessionId is nullable during init">>,
     affected_areas |-> <<"ChatSessionsService.ts">>,
     review_priority |-> priority,
     estimated_review_time |-> "20 minutes",
     key_changes |-> <<"Adds initSession()">>]

JsonDocuments == {"doc_full", "doc_justified", "doc_missing", "doc_array"}

DocValue(doc) ==
    CASE doc = "doc_full" ->
           [kind |-> "object", value |-> ProviderContext("summary A", "high")]
      [] doc = "doc_justified" ->
           [kind |-> "object",
            value |-> ProviderContext("summary B", "MEDIUM - 18 lines in 2 files")]
      [] doc = "doc_missing" ->
           [kind |-> "object",
            value |-> [summary |-> "summary C", purpose |-> <<"Fixes the null check">>]]
      [] doc = "doc_array" ->
           [kind |-> "array", value |-> <<"summary D">>]

\* json.loads(content)
JsonLoads(c) ==
    IF Len(c) = 1 /\ c[1] \in JsonDocuments
    THEN [ok |-> TRUE, data |-> DocValue(c[1])]
    ELSE [ok |-> FALSE,
          error |-> [type |-> "JSONDecodeError", text |-> <<"Expecting", "value">>]]

\* The PRContext constructor applied to analysis_data: a TypeError when the data is no mapping, a
\* ValidationError when a required field is missing
ValidateContext(data) ==
    IF data.kind # "object"
    THEN [ok |-> FALSE,
          error |-> [type |-> "TypeError",
                     text |-> <<"argument", "after", "**", "must", "be", "a", "mapping">>]]
    ELSE IF ~(ContextFields \subseteq DOMAIN data.value)
    THEN [ok |-> FALSE,
          error |-> [type |-> "ValidationError",
                     text |-> <<"validation", "errors", "for", "PRContext">>]]
    ELSE [ok |-> TRUE, context |-> [f \in ContextFields |-> data.value[f]]]

\* str.lower(), word by word
LowerWord(w) ==
    CASE w = "Rate" -> "rate"
      [] w = "Limit" -> "limit"
      [] w = "Quota" -> "quota"
      [] OTHER -> w

Lower(text) == [i \in 1..Len(text) |-> LowerWord(text[i])]

\* phrase in text
Contains(text, phrase) ==
    \E i \in 1..Len(text) :
        /\ i + Len(phrase) - 1 <= Len(text)
        /\ SubSeq(text, i, i + Len(phrase) - 1) = phrase

\* Lines 253-254
IsRateLimit(e) ==
    LET error_str == Lower(e.text)
    IN  Contains(error_str, <<"rate", "limit">>) \/ Contains(error_str, <<"quota">>)

\* The rate-limit delay without its two-step head start
RateLimitWaitNoShift(a) == Min(Pow2(a), RateLimitCap)

\* Line 257: min(2 ** (attempt + 2), 30)
RateLimitWait(a) == Min(Pow2(a + 2), RateLimitCap)

\* The generic delay without its cap
GenericWaitUncapped(a) == Pow2(a)

\* Lines 269 and 280: min(2 ** attempt, 10)
GenericWait(a) == Min(Pow2(a), GenericCap)

NoError == [type |-> "None", text |-> <<>>]

Returned(via, context) == [kind |-> "return", via |-> via, context |-> context]
Raised(text, cause) ==
    [kind |-> "raise", error |-> [type |-> "ValueError", text |-> text, cause |-> cause]]
NoOutcome == [kind |-> "none"]

\* What one iteration does next: return, raise, sleep (then retry) or
\* continue (retry at once).
Step(kind, next, wait, err, result) ==
    [kind |-> kind, next |-> next, wait |-> wait, last_error |-> err,
     result |-> result]

\* The rate-limit branch without its own raise: the last attempt falls
\* through to the generic error
OnRateLimitFallsThrough(e, a, M) ==
    IF a < M - 1
    THEN Step("rate", "sleep", RateLimitWait(a), e, NoOutcome)
    ELSE Step("rate", "raise", 0, e,
              Raised("AI analysis failed after " \o ToString(M) \o " attempts",
                     e.text))

\* Lines 256-265
OnRateLimit(e, a, M) ==
    IF a < M - 1
    THEN Step("rate", "sleep", RateLimitWait(a), e, NoOutcome)
    ELSE Step("rate", "raise", 0, e,
              Raised("Groq API rate limit exceeded. Please try again in a few minutes. "
                         \o "Free tier: 80,000 tokens/day, 30 requests/minute.",
                     <<>>))

\* The generic branch giving up one attempt early
OnGroqGenericEarly(e, a, M) ==
    IF a < M - 2
    THEN Step("groq", "sleep", GenericWait(a), e, NoOutcome)
    ELSE Step("groq", "raise", 0, e,
              Raised("AI analysis failed after " \o ToString(M) \o " attempts",
                     e.text))

\* Lines 267-273
OnGroqGeneric(e, a, M) ==
    IF a < M - 1
    THEN Step("groq", "sleep", GenericWait(a), e, NoOutcome)
    ELSE Step("groq", "raise", 0, e,
              Raised("AI analysis failed after " \o ToString(M) \o " attempts",
                     e.text))

\* Lines 248-273: except GroqError
OnGroqError(e, a, M) ==
    IF IsRateLimit(e) THEN OnRateLimit(e, a, M) ELSE OnGroqGeneric(e, a, M)

\* The handler sleeping after the last attempt too
OnExceptionAlwaysSleeps(kind, e, a, M) ==
    IF a < M
    THEN Step(kind, "sleep", GenericWait(a), e, NoOutcome)
    ELSE Step(kind, "raise", 0, e,
              Raised("Analysis failed after " \o ToString(M) \o " attempts", e.text))

\* Lines 275-284: except Exception
OnException(kind, e, a, M) ==
    IF a < M - 1
    THEN Step(kind, "sleep", GenericWait(a), e, NoOutcome)
    ELSE Step(kind, "raise", 0, e,
              Raised("Analysis failed after " \o ToString(M) \o " attempts", e.text))

\* Lines 235-246: except json.JSONDecodeError
OnJsonDecodeError(e, content, a, M, r, prev_error) ==
    IF a = M - 1
    THEN Step("json", "return", 0, prev_error,
              Returned("fallback", CreateFallbackContext(r, content)))
    ELSE Step("json", "continue", 0, e, NoOutcome)

\* A loop that goes on to the next attempt after a completion that parsed
OnResponseKeepsTrying(raw, a, M, r, prev_error) ==
    LET content == StripFences(Strip(raw))
        loaded == JsonLoads(content)
    IN  IF ~loaded.ok
        THEN OnJsonDecodeError(loaded.error, content, a, M, r, prev_error)
        ELSE LET v == ValidateContext(loaded.data)
             IN  IF v.ok
                 THEN IF a < M - 1
                      THEN Step("ok", "continue", 0, prev_error, NoOutcome)
                      ELSE Step("ok", "return", 0, prev_error,
                                Returned("parsed", v.context))
                 ELSE OnException("schema", v.error, a, M)

\* Lines 213-246: the call returned a completion
OnResponse(raw, a, M, r, prev_error) ==
    LET content == StripFences(Strip(raw))
        loaded == JsonLoads(content)
    IN  IF ~loaded.ok
        THEN OnJsonDecodeError(loaded.error, content, a, M, r, prev_error)
        ELSE LET v == ValidateContext(loaded.data)
             IN  IF v.ok
                 THEN Step("ok", "return", 0, prev_error, Returned("parsed", v.context))
                 ELSE OnException("schema", v.error, a, M)

\* Lines 189-284: the body of the loop for what the provider call did
HandleAttempt(o, a, M, r, prev_error) ==
    CASE o.type = "response" -> OnResponse(o.content, a, M, r, prev_error)
      [] o.type = "GroqError" -> OnGroqError(o, a, M)
      [] OTHER -> OnException("exc", o, a, M)


(***************************************************************************)
(* The inputs the environment draws from.                                  *)
(***************************************************************************)
DescShort == <<"f", "i", "x">>
DescLong == [i \in 1..(PurposeLen + 1) |-> IF i <= PurposeLen THEN "a" ELSE "b"]

CommitA == [sha |-> "c0ffee", message |-> "fix null check", author |-> "ana"]

\* The request of the specification's end-to-end scenario: 18 changed lines
RA ==
    Request("Fix null check", <<>>,
            <<File(<<"a.ts">>, "modified", 10, 2, "patch 1"),
              File(<<"b.ts">>, "modified", 5, 1, "patch 2")>>,
            <<>>, "main", "fix")

\* Same title, file count, sums and first paths as RA; all else differs
RA2 ==
    Request("Fix null check", DescShort,
            <<File(<<"a.ts">>, "added", 5, 1, "patch 3"),
              File(<<"b.ts">>, "renamed", 10, 2, "patch 4")>>,
            <<CommitA>>, "develop", "null-check")

\* Four files, 205 changed lines, a description longer than 200 characters
RB ==
    Request("Add cache", DescLong,
            <<File(<<"src", "cache", "lru.py">>, "added", 100, 0, "patch 5"),
              File(<<"src", "api.py">>, "modified", 40, 20, "patch 6"),
              File(<<"tests", "test_lru.py">>, "added", 45, 0, "patch 7"),
              File(<<"README.md">>, "modified", 0, 0, "patch 8")>>,
            <<CommitA>>, "main", "cache")

\* The requests the cache is called with
CacheRequests == {RA, RA2, RB}

\* The results the cache is given
ContextA == ProviderContext("summary A", "high")
ContextB == ProviderContext("summary B", "MEDIUM - 18 lines in 2 files")
CacheContexts == {ContextA, ContextB}

(***************************************************************************)
(* What a step returned.                                                   *)
(***************************************************************************)
NoRet == [op |-> "none"]

(***************************************************************************)
(* Concurrent request handlers.  Each is a coroutine on the one event loop *)
(* of the process (main.py runs one uvicorn process).                      *)
(***************************************************************************)
NumHandlers == 2        \* requests that can be in the server at once

Handlers == 1..NumHandlers

\* A handler with no request
IdleTask ==
    [pc |-> "idle", pr |-> NoValue, attempt |-> 0, last_error |-> NoError,
     wait |-> 0, seen |-> NoValue, expired |-> {}, context |-> NoValue,
     result |-> NoRet]

(***************************************************************************)
(* The clock.                                                              *)
(***************************************************************************)
Tick ==
    /\ \E t \in ClockValues : t > now /\ now' = t
    /\ ret' = NoRet
    /\ UNCHANGED <<cache, lastSet, groq_service, api_key, pc, endpoint, pr_data,
                   max_retries, attempt, last_error, wait_time, outcomes, called,
                   sleeps, outcome, args,
                   tasks, running, cache_calls>>

(***************************************************************************)
(* The cache called directly: get, set, clear, stats.                      *)
(***************************************************************************)
handlerVars ==
    <<groq_service, api_key, pc, endpoint, pr_data, max_retries, attempt,
      last_error, wait_time, outcomes, called, sleeps, outcome, args, tasks,
      running, cache_calls>>

\* How a set found the key: absent, fresh or expired
Found(c, key, t) ==
    IF key \notin DOMAIN c THEN "absent"
    ELSE IF t - c[key].timestamp > TTL THEN "expired"
    ELSE "fresh"

\* The history of a set
Remember(r, context) ==
    Put(lastSet, GenerateCacheKey(r),
        [at |-> now, data |-> context, by |-> r,
         found |-> Found(cache, GenerateCacheKey(r), now)])

CallGet(r) ==
    LET g == CacheGet(cache, r, now)
    IN  /\ cache' = g.cache
        /\ ret' = [op |-> "get", pr |-> r, value |-> g.value,
                   evicted |-> DOMAIN cache \ DOMAIN g.cache]
        /\ UNCHANGED <<now, lastSet>>
        /\ UNCHANGED handlerVars

CallSet(r, context) ==
    /\ cache' = CacheSet(cache, r, context, now)
    /\ lastSet' = Remember(r, context)
    /\ ret' = [op |-> "set", pr |-> r,
               swept |-> (DOMAIN cache \cup {GenerateCacheKey(r)}) \ DOMAIN cache']
    /\ UNCHANGED now
    /\ UNCHANGED handlerVars

CallClear ==
    /\ cache' = CacheClear(cache)
    /\ lastSet' = EmptyCache
    /\ ret' = [op |-> "clear"]
    /\ UNCHANGED now
    /\ UNCHANGED handlerVars

CallStats ==
    /\ ret' = [op |-> "stats", value |-> CacheStats(cache, now)]
    /\ UNCHANGED <<now, cache, lastSet>>
    /\ UNCHANGED handlerVars

InitCommon ==
    /\ now = 0
    /\ cache = EmptyCache
    /\ lastSet = EmptyCache
    /\ ret = NoRet
    /\ groq_service = "none"
    /\ pc = "idle"
    /\ endpoint = "none"
    /\ pr_data = NoValue
    /\ attempt = 0
    /\ last_error = NoError
    /\ wait_time = 0
    /\ outcomes = <<>>
    /\ called = NoValue
    /\ sleeps = <<>>
    /\ outcome = NoOutcome
    /\ tasks = [h \in Handlers |-> IdleTask]
    /\ running = 0
    /\ cache_calls = <<>>

InitCache ==
    /\ InitCommon
    /\ args = NoValue
    /\ api_key = TRUE
    /\ max_retries = DefaultMaxRetries

NextCache ==
    \/ \E r \in CacheRequests : CallGet(r)
    \/ \E r \in CacheRequests : \E context \in CacheContexts : CallSet(r, context)
    \/ CallClear
    \/ CallStats
    \/ Tick

\* The cache under any sequence of calls
SpecCache == InitCache /\ [][NextCache]_vars


(***************************************************************************)
(* GroqService.analyze_pr: the retry loop, one provider call per step.     *)
(***************************************************************************)
Completion(tokens) == [type |-> "response", content |-> tokens]
GroqError(words) == [type |-> "GroqError", text |-> words]
OtherError(type, words) == [type |-> type, text |-> words]

\* What self.client.chat.completions.create can do
ProviderOutcomes ==
    {Completion(<<"doc_full">>),
     Completion(<<FenceJson, WS, "doc_justified", WS, Fence>>),
     Completion(<<WS, Fence, WS, "doc_full", Fence, WS>>),
     Completion(<<"doc_truncated">>),
     Completion(<<"Here", "is", "the", "analysis", WS, "doc_full">>),
     Completion(<<>>),
     Completion(<<"doc_missing">>),
     Completion(<<FenceJson, WS, "doc_array", WS, Fence>>),
     GroqError(<<"Rate", "limit", "reached", "for", "model">>),
     GroqError(<<"You", "exceeded", "your", "current", "quota">>),
     GroqError(<<"Connection", "error">>),
     GroqError(<<"Internal", "server", "error">>),
     OtherError("TimeoutError", <<"timed", "out">>)}

\* simplified_data of the quick endpoint
Simplified(r) ==
    [r EXCEPT !.files = Take(@, QuickFiles), !.commits = Take(@, QuickCommits)]

\* The request analyze_pr was called with
InvokedWith == IF endpoint = "quick" THEN Simplified(pr_data) ELSE pr_data

\* Lines 186-188: the locals of a fresh invocation
StartInvocation(m) ==
    /\ max_retries' = m
    /\ attempt' = 0
    /\ last_error' = NoError
    /\ wait_time' = 0
    /\ outcomes' = <<>>
    /\ called' = NoValue
    /\ sleeps' = <<>>
    /\ outcome' = NoOutcome

\* Line 188 and lines 286-287: the loop is over once attempt reaches
\* max_retries, and analyze_pr raises with the last error
LoopExhausted(prev_error) ==
    Step("none", "raise", 0, prev_error, Raised("Analysis failed", prev_error.text))

\* Lines 189-284: one iteration, up to its return, raise, sleep or continue,
\* for a provider call that does one of the things in pool
AttemptFrom(pool) ==
    /\ pc = "attempting"
    /\ \E o \in pool :
          LET s == IF attempt < max_retries
                   THEN HandleAttempt(o, attempt, max_retries, InvokedWith,
                                      last_error)
                   ELSE LoopExhausted(last_error)
          IN  /\ outcomes' = IF attempt < max_retries
                             THEN Append(outcomes, s.kind) ELSE outcomes
              /\ called' = IF attempt < max_retries THEN o ELSE called
              /\ last_error' = s.last_error
              /\ outcome' = s.result
              /\ wait_time' = s.wait
              /\ pc' = CASE s.next = "sleep" -> "sleeping"
                         [] s.next = "continue" -> "attempting"
                         [] OTHER -> "finished"
              /\ attempt' = IF s.next = "continue" THEN attempt + 1 ELSE attempt
    /\ ret' = NoRet
    /\ UNCHANGED <<now, cache, lastSet, groq_service, api_key, endpoint, pr_data,
                   max_retries, sleeps, args,
                   tasks, running, cache_calls>>

\* Lines 259, 271, 282: time.sleep(wait_time), then the next iteration
Sleep ==
    /\ pc = "sleeping"
    /\ sleeps' = Append(sleeps, [attempt |-> attempt, seconds |-> wait_time])
    /\ attempt' = attempt + 1
    /\ wait_time' = 0
    /\ pc' = "attempting"
    /\ ret' = NoRet
    /\ UNCHANGED <<now, cache, lastSet, groq_service, api_key, endpoint, pr_data,
                   max_retries, last_error, outcomes, called, outcome, args,
                   tasks, running, cache_calls>>

\* analyze_pr called directly, with any max_retries
Invoke(r, m) ==
    /\ pc = "idle" \/ (pc = "finished" /\ endpoint = "direct")
    /\ pc' = "attempting"
    /\ endpoint' = "direct"
    /\ pr_data' = r
    /\ StartInvocation(m)
    /\ ret' = NoRet
    /\ UNCHANGED <<now, cache, lastSet, groq_service, api_key, args,
                   tasks, running, cache_calls>>

InvokeRequests == {RA, RB}

InitInvoke ==
    /\ InitCommon
    /\ args = NoValue
    /\ api_key = TRUE
    /\ max_retries = DefaultMaxRetries

NextInvoke ==
    \/ \E r \in InvokeRequests : \E m \in 1..MaxRetriesBound : Invoke(r, m)
    \/ AttemptFrom(ProviderOutcomes)
    \/ Sleep

\* The invoker under any sequence of provider outcomes
SpecInvoke == InitInvoke /\ [][NextInvoke]_vars


(***************************************************************************)
(* app/routers/analyze.py: the two endpoints.  A handler has no await that *)
(* suspends it before analyze_pr returns, so one handler runs at a time.   *)
(***************************************************************************)
\* No file at all: PRAnalyzeRequest's min_items=1 rejects it
REmpty == Request("Empty", <<>>, <<>>, <<>>, "main", "empty")

\* 101 files: validate_files rejects it
RTooMany ==
    Request("Vendor drop", DescShort,
            [i \in 1..(MaxFiles + 1) |->
                File(<<"vendor", "f" \o ToString(i)>>, "added", 1, 0, "patch")],
            <<>>, "main", "vendor")

\* Twelve files and six commits: more than the quick endpoint passes on
RMany ==
    Request("Rename module", DescShort,
            [i \in 1..(QuickFiles + 2) |->
                File(<<"pkg", "m" \o ToString(i)>>, "renamed", 1, 1, "patch")],
            [i \in 1..(QuickCommits + 1) |-> CommitA],
            "main", "rename")

Requests == {RA, RA2, RB, REmpty, RTooMany}
QuickRequests == {RA, RMany, REmpty}

\* What the provider does while the endpoints are exercised: a completion
\* that parses, one that does not, a rate-limit error and another error
EndpointOutcomes ==
    {Completion(<<"doc_full">>),
     Completion(<<"doc_truncated">>),
     GroqError(<<"Rate", "limit", "reached", "for", "model">>),
     GroqError(<<"Connection", "error">>)}

\* PRAnalyzeResponse and HTTPException, as the caller sees them
Ok(r, context, cached) ==
    [op |-> "analyze", pr |-> r, status |-> 200, context |-> context,
     cached |-> cached]
QuickOk(r, context) ==
    [op |-> "quick", pr |-> r, status |-> 200, context |-> context]
Failed(op, r, status, detail) ==
    [op |-> op, pr |-> r, status |-> status, detail |-> detail]

\* A call of a CacheService method by a handler, for the history
CacheCall(op, r) == [op |-> op, key |-> GenerateCacheKey(r)]

\* get_groq_service: GroqService() raises ValueError without an API key
GroqAvailable == groq_service = "ready" \/ api_key

\* Lines 45-86 of analyze_pr: validation by the framework, the cache lookup,
\* the cached response, or the start of the analysis
Analyze(r) ==
    /\ pc = "idle"
    /\ IF ~ValidRequest(r)
       THEN /\ ret' = Failed("analyze", r, 422, "request validation")
            /\ UNCHANGED <<cache, groq_service, pc, endpoint, pr_data>>
            /\ UNCHANGED invokeVars
       ELSE LET g == CacheGet(cache, r, now)
            IN  /\ cache' = g.cache
                /\ IF g.value.hit
                   THEN /\ ret' = Ok(r, g.value.data, TRUE)
                        /\ UNCHANGED <<groq_service, pc, endpoint, pr_data>>
                        /\ UNCHANGED invokeVars
                   ELSE IF r.files = <<>>
                   THEN /\ ret' = Failed("analyze", r, 400,
                                         "At least one file must be provided")
                        /\ UNCHANGED <<groq_service, pc, endpoint, pr_data>>
                        /\ UNCHANGED invokeVars
                   ELSE IF ~GroqAvailable
                   THEN /\ ret' = Failed("analyze", r, 503, "GROQ_API_KEY not configured")
                        /\ UNCHANGED <<groq_service, pc, endpoint, pr_data>>
                        /\ UNCHANGED invokeVars
                   ELSE /\ groq_service' = "ready"
                        /\ pc' = "attempting"
                        /\ endpoint' = "analyze"
                        /\ pr_data' = r
                        /\ StartInvocation(DefaultMaxRetries)
                        /\ ret' = NoRet
    /\ cache_calls' = IF ValidRequest(r)
                      THEN <<CacheCall("get", r)>> ELSE <<>>
    /\ UNCHANGED <<now, lastSet, api_key, args,
                   tasks, running>>

\* The locals of analyze_pr are gone once the handler has its result
EndInvocation ==
    /\ attempt' = 0
    /\ last_error' = NoError
    /\ wait_time' = 0
    /\ outcomes' = <<>>
    /\ called' = NoValue
    /\ sleeps' = <<>>
    /\ outcome' = NoOutcome
    /\ UNCHANGED max_retries

\* A handler that caches the degraded result when the analysis raised
AnalyzeCompleteCachesFailure ==
    /\ pc = "finished"
    /\ endpoint = "analyze"
    /\ IF outcome.kind = "return"
       THEN /\ cache' = CacheSet(cache, pr_data, outcome.context, now)
            /\ lastSet' = Remember(pr_data, outcome.context)
            /\ ret' = Ok(pr_data, outcome.context, FALSE)
       ELSE /\ cache' = CacheSet(cache, pr_data,
                                 CreateFallbackContext(pr_data, <<>>), now)
            /\ lastSet' = Remember(pr_data, CreateFallbackContext(pr_data, <<>>))
            /\ ret' = Failed("analyze", pr_data, 422, outcome.error.text)
    /\ cache_calls' = Append(cache_calls, CacheCall("set", pr_data))
    /\ pc' = "idle"
    /\ EndInvocation
    /\ UNCHANGED <<now, groq_service, api_key, endpoint, pr_data, args,
                   tasks, running>>

\* A handler that caches parsed results only
AnalyzeCompleteSkipsFallback ==
    /\ pc = "finished"
    /\ endpoint = "analyze"
    /\ IF outcome.kind = "return"
       THEN /\ IF outcome.via = "parsed"
               THEN /\ cache' = CacheSet(cache, pr_data, outcome.context, now)
                    /\ lastSet' = Remember(pr_data, outcome.context)
                    /\ cache_calls' = Append(cache_calls, CacheCall("set", pr_data))
               ELSE UNCHANGED <<cache, lastSet, cache_calls>>
            /\ ret' = Ok(pr_data, outcome.context, FALSE)
       ELSE /\ ret' = Failed("analyze", pr_data, 422, outcome.error.text)
            /\ UNCHANGED <<cache, lastSet, cache_calls>>
    /\ pc' = "idle"
    /\ EndInvocation
    /\ UNCHANGED <<now, groq_service, api_key, endpoint, pr_data, args,
                   tasks, running>>

\* Lines 90-115 of analyze_pr: cache the result and answer, or answer 422
AnalyzeComplete ==
    /\ pc = "finished"
    /\ endpoint = "analyze"
    /\ IF outcome.kind = "return"
       THEN /\ cache' = CacheSet(cache, pr_data, outcome.context, now)
            /\ lastSet' = Remember(pr_data, outcome.context)
            /\ ret' = Ok(pr_data, outcome.context, FALSE)
       ELSE /\ ret' = Failed("analyze", pr_data, 422, outcome.error.text)
            /\ UNCHANGED <<cache, lastSet>>
    /\ cache_calls' = IF outcome.kind = "return"
                      THEN Append(cache_calls, CacheCall("set", pr_data))
                      ELSE cache_calls
    /\ pc' = "idle"
    /\ EndInvocation
    /\ UNCHANGED <<now, groq_service, api_key, endpoint, pr_data, args,
                   tasks, running>>

\* A quick endpoint that looks the request up in the cache first
QuickReadsCache(r) ==
    /\ pc = "idle"
    /\ IF ~ValidRequest(r)
       THEN /\ ret' = Failed("quick", r, 422, "request validation")
            /\ cache_calls' = <<>>
            /\ UNCHANGED <<groq_service, pc, endpoint, pr_data>>
            /\ UNCHANGED invokeVars
       ELSE IF CacheGetNoExpiry(cache, r, now).value.hit
       THEN /\ ret' = QuickOk(r, CacheGetNoExpiry(cache, r, now).value.data)
            /\ cache_calls' = <<CacheCall("get", r)>>
            /\ UNCHANGED <<groq_service, pc, endpoint, pr_data>>
            /\ UNCHANGED invokeVars
       ELSE IF ~GroqAvailable
       THEN /\ ret' = Failed("quick", r, 500, "Quick analysis failed")
            /\ cache_calls' = <<CacheCall("get", r)>>
            /\ UNCHANGED <<groq_service, pc, endpoint, pr_data>>
            /\ UNCHANGED invokeVars
       ELSE /\ groq_service' = "ready"
            /\ pc' = "attempting"
            /\ endpoint' = "quick"
            /\ pr_data' = r
            /\ StartInvocation(DefaultMaxRetries)
            /\ cache_calls' = <<CacheCall("get", r)>>
            /\ ret' = NoRet
    /\ UNCHANGED <<now, cache, lastSet, api_key, args,
                   tasks, running>>

\* Lines 139-148 of quick_analyze_pr
Quick(r) ==
    /\ pc = "idle"
    /\ IF ~ValidRequest(r)
       THEN /\ ret' = Failed("quick", r, 422, "request validation")
            /\ UNCHANGED <<groq_service, pc, endpoint, pr_data>>
            /\ UNCHANGED invokeVars
       ELSE IF ~GroqAvailable
       THEN /\ ret' = Failed("quick", r, 500, "Quick analysis failed")
            /\ UNCHANGED <<groq_service, pc, endpoint, pr_data>>
            /\ UNCHANGED invokeVars
       ELSE /\ groq_service' = "ready"
            /\ pc' = "attempting"
            /\ endpoint' = "quick"
            /\ pr_data' = r
            /\ StartInvocation(DefaultMaxRetries)
            /\ ret' = NoRet
    /\ cache_calls' = <<>>
    /\ UNCHANGED <<now, cache, lastSet, api_key, args,
                   tasks, running>>

\* Lines 150-168 of quick_analyze_pr
QuickComplete ==
    /\ pc = "finished"
    /\ endpoint = "quick"
    /\ ret' = IF outcome.kind = "return"
              THEN QuickOk(pr_data, outcome.context)
              ELSE Failed("quick", pr_data, 500, "Quick analysis failed")
    /\ pc' = "idle"
    /\ EndInvocation
    /\ UNCHANGED <<now, cache, lastSet, groq_service, api_key, endpoint, pr_data,
                   args, tasks, running, cache_calls>>

Init ==
    /\ InitCommon
    /\ args = NoValue
    /\ api_key \in BOOLEAN
    /\ max_retries = DefaultMaxRetries

Next ==
    \/ \E r \in Requests : Analyze(r)
    \/ AnalyzeComplete
    \/ \E r \in QuickRequests : Quick(r)
    \/ QuickComplete
    \/ AttemptFrom(EndpointOutcomes)
    \/ Sleep
    \/ Tick

\* The service: requests to the two endpoints, one handler at a time
Spec == Init /\ [][Next]_vars


(***************************************************************************)
(* POST /analyze under concurrent requests.  A handler is an async def: it *)
(* runs on the event loop's thread from its first statement until it       *)
(* returns or reaches an await that suspends it, and no other handler runs *)
(* meanwhile.  CacheService.get and set are followed statement by          *)
(* statement.                                                              *)
(***************************************************************************)
\* The positions of a handler that has a request
Positions ==
    {"queued", "get_read", "get_del", "service", "sleeping", "set_put",
     "sweep_scan", "sweep_del", "done"}

\* Handlers that give the thread up at every position, as def handlers run
\* in a thread pool would
YieldPointsThreadPool == Positions

\* The positions at which a handler gives the event loop back before it
\* returns.  The handler's one await (analyze.py line 90) awaits
\* GroqService.analyze_pr, which has no await of its own: the provider call
\* (line 196) and time.sleep (lines 259, 271, 282) are synchronous, and the
\* methods of CacheService are plain functions.
YieldPoints == {}

TaskKey(h) == GenerateCacheKey(tasks[h].pr)

\* The event loop lets handler h run
CanRun(h) == running \in {0, h}

\* Handler h moves to task record t
Move(h, t) ==
    /\ tasks' = [tasks EXCEPT ![h] = t]
    /\ running' = IF t.pc = "done" \/ t.pc \in YieldPoints THEN 0 ELSE h

\* What the concurrent handlers leave alone
loopVars ==
    <<ret, lastSet, groq_service, api_key, pc, endpoint, pr_data, max_retries,
      attempt, last_error, wait_time, outcomes, called, sleeps, outcome, args,
      cache_calls>>

\* The exception handler of lines 119-124
InternalError(r) == Failed("analyze", r, 500, "Internal server error during analysis")

\* The handler returns or raises: its locals are gone, the response is left
Done(t, result) == [IdleTask EXCEPT !.pc = "done", !.pr = t.pr, !.result = result]

\* A request arrives and is validated; its handler waits for the event loop
Submit(h, r) ==
    /\ tasks[h].pc = "idle"
    /\ ValidRequest(r)
    /\ tasks' = [tasks EXCEPT ![h] = [IdleTask EXCEPT !.pc = "queued", !.pr = r]]
    /\ UNCHANGED <<now, cache, running>>
    /\ UNCHANGED loopVars

\* cache_service.get, lines 60-64: the membership test
GetCheck(h) ==
    /\ tasks[h].pc = "queued"
    /\ CanRun(h)
    /\ Move(h, [tasks[h] EXCEPT !.pc = IF TaskKey(h) \in DOMAIN cache
                                       THEN "get_read" ELSE "service"])
    /\ UNCHANGED <<now, cache>>
    /\ UNCHANGED loopVars

\* cache_service.get, lines 66-70 and 75-76: read the entry, test its age
GetRead(h) ==
    /\ tasks[h].pc = "get_read"
    /\ CanRun(h)
    /\ IF TaskKey(h) \notin DOMAIN cache
       THEN Move(h, Done(tasks[h], InternalError(tasks[h].pr)))
       ELSE LET entry == cache[TaskKey(h)]
            IN  IF now - entry.timestamp > TTL
                THEN Move(h, [tasks[h] EXCEPT !.pc = "get_del", !.seen = entry])
                ELSE Move(h, Done(tasks[h], Ok(tasks[h].pr, entry.data, TRUE)))
    /\ UNCHANGED <<now, cache>>
    /\ UNCHANGED loopVars

\* cache_service.get, lines 72-73: delete the expired entry
GetDel(h) ==
    /\ tasks[h].pc = "get_del"
    /\ CanRun(h)
    /\ IF TaskKey(h) \notin DOMAIN cache
       THEN /\ Move(h, Done(tasks[h], InternalError(tasks[h].pr)))
            /\ UNCHANGED cache
       ELSE /\ cache' = Remove(cache, TaskKey(h))
            /\ Move(h, [tasks[h] EXCEPT !.pc = "service"])
    /\ UNCHANGED now
    /\ UNCHANGED loopVars

\* What the provider does while concurrent requests are exercised
LoopOutcomes ==
    {Completion(<<"doc_full">>), GroqError(<<"Connection", "error">>)}

\* groq_service.analyze_pr, lines 189-284: one attempt
Call(h) ==
    /\ tasks[h].pc = "service"
    /\ CanRun(h)
    /\ \E o \in LoopOutcomes :
          LET t == tasks[h]
              s == HandleAttempt(o, t.attempt, DefaultMaxRetries, t.pr, t.last_error)
          IN  CASE s.next = "sleep" ->
                     Move(h, [t EXCEPT !.pc = "sleeping", !.wait = s.wait,
                                       !.last_error = s.last_error])
                [] s.next = "continue" ->
                     Move(h, [t EXCEPT !.attempt = @ + 1,
                                       !.last_error = s.last_error])
                [] s.next = "return" ->
                     Move(h, [t EXCEPT !.pc = "set_put",
                                       !.context = s.result.context])
                [] OTHER ->
                     Move(h, Done(t, Failed("analyze", t.pr, 422, s.result.error.text)))
    /\ UNCHANGED <<now, cache>>
    /\ UNCHANGED loopVars

\* time.sleep(wait_time) returns
SleepEnd(h) ==
    /\ tasks[h].pc = "sleeping"
    /\ CanRun(h)
    /\ Move(h, [tasks[h] EXCEPT !.pc = "service", !.attempt = @ + 1, !.wait = 0])
    /\ UNCHANGED <<now, cache>>
    /\ UNCHANGED loopVars

\* cache_service.set, lines 82-88: store the entry
SetPut(h) ==
    /\ tasks[h].pc = "set_put"
    /\ CanRun(h)
    /\ cache' = Put(cache, TaskKey(h),
                    [data |-> tasks[h].context, timestamp |-> now,
                     pr_title |-> tasks[h].pr.title])
    /\ Move(h, [tasks[h] EXCEPT !.pc = "sweep_scan"])
    /\ UNCHANGED now
    /\ UNCHANGED loopVars

\* _cleanup_expired, lines 97-101: collect the expired keys
SweepScan(h) ==
    /\ tasks[h].pc = "sweep_scan"
    /\ CanRun(h)
    /\ Move(h, [tasks[h] EXCEPT
                   !.pc = "sweep_del",
                   !.expired = {k \in DOMAIN cache : now - cache[k].timestamp > TTL}])
    /\ UNCHANGED <<now, cache>>
    /\ UNCHANGED loopVars

\* _cleanup_expired, lines 103-105: delete them; a key that is gone raises
\* KeyError after some of the others were deleted
SweepDel(h) ==
    /\ tasks[h].pc = "sweep_del"
    /\ CanRun(h)
    /\ IF tasks[h].expired \subseteq DOMAIN cache
       THEN /\ cache' = [k \in DOMAIN cache \ tasks[h].expired |-> cache[k]]
            /\ Move(h, Done(tasks[h], Ok(tasks[h].pr, tasks[h].context, FALSE)))
       ELSE /\ \E gone \in SUBSET (tasks[h].expired \cap DOMAIN cache) :
                  cache' = [k \in DOMAIN cache \ gone |-> cache[k]]
            /\ Move(h, Done(tasks[h], InternalError(tasks[h].pr)))
    /\ UNCHANGED now
    /\ UNCHANGED loopVars

\* The response is sent
Finish(h) ==
    /\ tasks[h].pc = "done"
    /\ tasks' = [tasks EXCEPT ![h] = IdleTask]
    /\ UNCHANGED <<now, cache, running>>
    /\ UNCHANGED loopVars

\* A statement of handler h
Run(h) ==
    \/ GetCheck(h)
    \/ GetRead(h)
    \/ GetDel(h)
    \/ Call(h)
    \/ SleepEnd(h)
    \/ SetPut(h)
    \/ SweepScan(h)
    \/ SweepDel(h)

LoopRequests == {RA, RB}

\* The clock advances while the handlers call the provider, sleep or wait;
\* the statements of one cache operation take no time on the clock's scale
TickLoop ==
    /\ \A h \in Handlers :
          tasks[h].pc \notin {"get_read", "get_del", "sweep_scan", "sweep_del"}
    /\ Tick

NextLoop ==
    \/ \E h \in Handlers : \E r \in LoopRequests : Submit(h, r)
    \/ \E h \in Handlers : GetCheck(h)
    \/ \E h \in Handlers : GetRead(h)
    \/ \E h \in Handlers : GetDel(h)
    \/ \E h \in Handlers : Call(h)
    \/ \E h \in Handlers : SleepEnd(h)
    \/ \E h \in Handlers : SetPut(h)
    \/ \E h \in Handlers : SweepScan(h)
    \/ \E h \in Handlers : SweepDel(h)
    \/ \E h \in Handlers : Finish(h)
    \/ TickLoop

SpecLoop == InitCache /\ [][NextLoop]_vars

(***************************************************************************)
(* The cache key as a function of the request: two requests are drawn,     *)
(* the result of one is stored and the other is looked up.                 *)
(***************************************************************************)
\* RB with another fourth path, other statuses, patches and per-file counts
RB2 ==
    Request("Add cache", <<>>,
            <<File(<<"src", "cache", "lru.py">>, "modified", 185, 0, "patch 9"),
              File(<<"src", "api.py">>, "renamed", 0, 20, "patch 10"),
              File(<<"tests", "test_lru.py">>, "modified", 0, 0, "patch 11"),
              File(<<"CHANGELOG.md">>, "added", 0, 0, "patch 12")>>,
            <<>>, "develop", "cache-2")

\* RA under another title
RC == [RA EXCEPT !.title = "Fix null check (v2)"]

\* RA with its two files in the other order
RD == [RA EXCEPT !.files = <<RA.files[2], RA.files[1]>>]

\* RA with one more added line
RE == [RA EXCEPT !.files[1].additions = 11]

\* RB with a fifth file and the same sums
RF == [RB EXCEPT !.files = Append(@, File(<<"docs", "cache.md">>, "added", 0, 0, "patch 13"))]

KeyRequests == {RA, RA2, RB, RB2, RC, RD, RE, RF}

InitKey ==
    /\ InitCommon
    /\ args \in [a : KeyRequests, b : KeyRequests]
    /\ api_key = TRUE
    /\ max_retries = DefaultMaxRetries

KeySet ==
    /\ DOMAIN cache = {}
    /\ \E context \in CacheContexts : CallSet(args.a, context)

KeyGet ==
    /\ DOMAIN cache # {}
    /\ CallGet(args.b)

NextKey == KeySet \/ KeyGet

SpecKey == InitKey /\ [][NextKey]_vars

(***************************************************************************)
(* The invoker when every provider call returns or fails: an iteration     *)
(* and a sleep both end.                                                   *)
(***************************************************************************)
NextInvokeLive ==
    \/ \E r \in InvokeRequests : \E m \in 1..MaxRetriesLive : Invoke(r, m)
    \/ AttemptFrom(ProviderOutcomes)
    \/ Sleep

SpecInvokeLive ==
    /\ InitInvoke
    /\ [][NextInvokeLive]_vars
    /\ WF_vars(AttemptFrom(ProviderOutcomes))
    /\ WF_vars(Sleep)

(***************************************************************************)
(* GroqService._create_fallback_context on its own: a request and a raw    *)
(* response are drawn, and the fallback is built from them.                *)
(***************************************************************************)
MaxFallbackCount == 6    \* the drawn requests have 1..MaxFallbackCount files

\* Total changes at and around the ends of the bands
Volumes ==
    {0, LowBand - 1, LowBand, MediumBand - 1, MediumBand, HighBand - 1, HighBand,
     2 * HighBand}

\* n files whose additions and deletions sum to v
VolumeFiles(n, v) ==
    [i \in 1..n |->
        File(IF i % 2 = 1 THEN <<"src", "m" \o ToString(i) \o ".py">>
                          ELSE <<"top" \o ToString(i) \o ".md">>,
             IF i % 2 = 1 THEN "modified" ELSE "added",
             IF i = 1 THEN v - Min(v, n - 1) ELSE 0,
             IF i > 1 /\ i - 1 <= v THEN 1 ELSE 0,
             "patch")]

FallbackRequests ==
    {Request("Volume", d, VolumeFiles(n, v), <<>>, "main", "volume") :
        d \in {<<>>, DescShort, DescLong}, n \in 1..MaxFallbackCount, v \in Volumes}

\* The stripped text of a completion that did not parse
RawResponses == {<<>>, <<"doc_truncated">>, <<"Here", "is", "the", "analysis">>}

InitFallback ==
    /\ InitCommon
    /\ args \in [pr : FallbackRequests, raw : RawResponses]
    /\ api_key = TRUE
    /\ max_retries = DefaultMaxRetries

\* Lines 289-325: the fields, then the PRContext constructor on them
CallFallback ==
    /\ ret = NoRet
    /\ LET v == ValidateContext([kind |-> "object",
                                 value |-> CreateFallbackContext(args.pr, args.raw)])
       IN  ret' = IF v.ok
                  THEN [op |-> "fallback", pr |-> args.pr, raw |-> args.raw,
                        raised |-> FALSE, context |-> v.context]
                  ELSE [op |-> "fallback", pr |-> args.pr, raw |-> args.raw,
                        raised |-> TRUE, error |-> v.error]
    /\ UNCHANGED <<now, cache, lastSet>>
    /\ UNCHANGED handlerVars

NextFallback == CallFallback

SpecFallback == InitFallback /\ [][NextFallback]_vars

(***************************************************************************)
(* The invoker under failures only, for longer retry loops: the delays     *)
(* reach both caps.                                                        *)
(***************************************************************************)
MaxRetriesBackoff == 6   \* max_retries ranges over 1..MaxRetriesBackoff

BackoffOutcomes ==
    {Completion(<<"doc_missing">>),
     GroqError(<<"Rate", "limit", "reached", "for", "model">>),
     GroqError(<<"Internal", "server", "error">>),
     OtherError("TimeoutError", <<"timed", "out">>)}

NextBackoff ==
    \/ \E m \in 1..MaxRetriesBackoff : Invoke(RA, m)
    \/ AttemptFrom(BackoffOutcomes)
    \/ Sleep

SpecBackoff == InitInvoke /\ [][NextBackoff]_vars

(***************************************************************************)
(* Two invocations that end in the fallback: the result of the first is    *)
(* kept and the second runs later, after other provider texts, another     *)
(* attempt history and other cache contents.                               *)
(***************************************************************************)
MaxRetriesRepro == 2     \* max_retries ranges over 1..MaxRetriesRepro

\* RA with another title, other commits and other branches
RA3 ==
    [RA EXCEPT !.title = "Guard against null", !.commits = <<CommitA>>,
               !.base_branch = "develop", !.head_branch = "guard"]

\* RA with a description
RA4 == [RA EXCEPT !.description = DescShort]

ReproRequests == {RA, RA3, RA4}

\* Completions that are no JSON, and a rate-limit error
ReproOutcomes ==
    {Completion(<<"doc_truncated">>),
     Completion(<<"Here", "is", "the", "analysis">>),
     GroqError(<<"Rate", "limit", "reached", "for", "model">>)}

InitRepro ==
    /\ InitCommon
    /\ args \in [a : ReproRequests, b : ReproRequests, first : {NoValue}]
    /\ api_key = TRUE
    /\ max_retries = DefaultMaxRetries

\* The first invocation is for args.a, the later ones for args.b
ReproInvoke ==
    \E m \in 1..MaxRetriesRepro :
        Invoke(IF args.first = NoValue THEN args.a ELSE args.b, m)

\* Line 242: the caller keeps the first synthesized result, with what the
\* provider, the loop, the clock and the cache were when it was built
KeepFirst ==
    /\ pc = "finished"
    /\ outcome.kind = "return"
    /\ outcome.via = "fallback"
    /\ args.first = NoValue
    /\ args' = [args EXCEPT !.first =
                   [pr |-> pr_data, context |-> outcome.context,
                    raw |-> called.content, outcomes |-> outcomes, at |-> now,
                    cached |-> DOMAIN cache]]
    /\ UNCHANGED <<now, cache, ret, lastSet, groq_service, api_key, pc, endpoint,
                   pr_data, tasks, running, cache_calls>>
    /\ UNCHANGED invokeVars

\* Another request's result is cached meanwhile
ReproSet == args.first # NoValue /\ DOMAIN cache = {} /\ CallSet(RB, ContextA)

\* The clock advances between the first synthesis and the later ones
ReproTick == args.first # NoValue /\ pc = "finished" /\ Tick

NextRepro ==
    \/ ReproInvoke
    \/ AttemptFrom(ReproOutcomes)
    \/ Sleep
    \/ KeepFirst
    \/ ReproSet
    \/ ReproTick

SpecRepro == InitRepro /\ [][NextRepro]_vars

(***************************************************************************)

(* The cache read again and again: each key is set once at most, and the   *)
(* hits are counted.                                                       *)
(***************************************************************************)
MaxHits == 2             \* hits counted up to MaxHits

InitReads ==
    /\ InitCommon
    /\ args = [hits |-> 0]
    /\ api_key = TRUE
    /\ max_retries = DefaultMaxRetries

\* CacheService.set, for a key that was never set
ReadsSet ==
    \E r \in CacheRequests : \E context \in CacheContexts :
        /\ GenerateCacheKey(r) \notin DOMAIN lastSet
        /\ CallSet(r, context)

\* CacheService.get, counting the hits
ReadsGet ==
    \E r \in CacheRequests :
        LET g == CacheGet(cache, r, now)
        IN  /\ g.value.hit => args.hits < MaxHits
            /\ cache' = g.cache
            /\ ret' = [op |-> "get", pr |-> r, value |-> g.value,
                       evicted |-> DOMAIN cache \ DOMAIN g.cache]
            /\ args' = IF g.value.hit THEN [hits |-> args.hits + 1] ELSE args
            /\ UNCHANGED <<now, lastSet, groq_service, api_key, pc, endpoint,
                           pr_data, tasks, running, cache_calls>>
            /\ UNCHANGED invokeVars

NextReads == ReadsSet \/ ReadsGet \/ Tick

SpecReads == InitReads /\ [][NextReads]_vars

(***************************************************************************)

(* Properties.                                                             *)
(***************************************************************************)
Last(seq) == seq[Len(seq)]

GenericKinds == {"groq", "exc"}

AllGeneric == \A i \in 1..Len(outcomes) : outcomes[i] \in GenericKinds

ExhaustedTexts(M) ==
    {"AI analysis failed after " \o ToString(M) \o " attempts",
     "Analysis failed after " \o ToString(M) \o " attempts"}

RateLimitText ==
    "Groq API rate limit exceeded. Please try again in a few minutes. "
        \o "Free tier: 80,000 tokens/day, 30 requests/minute."

\* C1: an invocation whose provider calls all fail with a generic error
\* makes exactly max_retries calls, raises only after the last of them, and
\* then raises the exhausted-retries error with the text of the last failure.
C1_RetryBound ==
    (endpoint = "direct" /\ AllGeneric) =>
        /\ Len(outcomes) <= max_retries
        /\ (pc = "finished") <=> (Len(outcomes) = max_retries)
        /\ pc = "finished" =>
              /\ outcome.kind = "raise"
              /\ outcome.error.text \in ExhaustedTexts(max_retries)
              /\ outcome.error.cause = called.text
        /\ pc # "finished" => outcome = NoOutcome

C1_Witness ==
    /\ endpoint = "direct"
    /\ pc = "finished"
    /\ max_retries = DefaultMaxRetries
    /\ outcomes = <<"groq", "exc", "groq">>
    /\ outcome.kind = "raise"
    /\ outcome.error.cause = <<"Internal", "server", "error">>

\* The final call of an invocation returned a completion that did not
\* become a PRContext
FinalParseFailure ==
    /\ pc = "finished"
    /\ Len(outcomes) = max_retries
    /\ called.type = "response"
    /\ Last(outcomes) # "ok"

\* C2: when the call of the final attempt succeeds and its text cannot be
\* parsed, the invocation returns the synthesized fallback and never raises.
C2_ParseFailureNeverRaises ==
    FinalParseFailure =>
        outcome = Returned("fallback", CreateFallbackContext(InvokedWith, <<>>))

\* C3: a completion that is valid JSON but no complete PRContext record is
\* handled as a parse failure: it ends in the fallback on the final attempt
\* and never in a raised error.
C3_SchemaFailureIsParseFailure ==
    (pc = "finished" /\ outcomes # <<>> /\ Last(outcomes) = "schema") =>
        /\ outcome.kind = "return"
        /\ outcome.via = "fallback"

RetKey == GenerateCacheKey(ret.pr)

\* C4: whenever get returns a result, the last set for that key is at most
\* TTL seconds old.
C4_NoExpiredEntryReturned ==
    (ret.op = "get" /\ ret.value.hit) =>
        /\ RetKey \in DOMAIN lastSet
        /\ now - lastSet[RetKey].at <= TTL

C4_Witness ==
    /\ ret.op = "get"
    /\ ret.value.hit
    /\ now - lastSet[RetKey].at = TTL

\* The last set for key k is at most TTL seconds old
Fresh(k) == k \in DOMAIN lastSet /\ now - lastSet[k].at <= TTL

\* C5: once an analysis has stored R for a fingerprint, a request with that
\* fingerprint handled while R is at most TTL seconds old is answered with R,
\* marked as cached, and starts no analysis (so no provider call).
C5_CacheHitEndToEnd ==
    /\ (ret.op = "analyze" /\ ValidRequest(ret.pr) /\ Fresh(RetKey)) =>
          /\ ret.status = 200
          /\ ret.context = lastSet[RetKey].data
          /\ ret.cached \/ (lastSet[RetKey].at = now /\ lastSet[RetKey].by = ret.pr)
          /\ pc = "idle"
    /\ (pc # "idle" /\ endpoint = "analyze") => ~Fresh(GenerateCacheKey(pr_data))

C5_Witness ==
    /\ ret.op = "analyze"
    /\ ret.status = 200
    /\ ret.cached
    /\ ret.pr = RA2
    /\ lastSet[RetKey].by = RA
    /\ ret.context = lastSet[RetKey].data
    /\ now - lastSet[RetKey].at = TTL

\* The five things the specification derives the fingerprint from
SameFive(a, b) ==
    /\ a.title = b.title
    /\ Len(a.files) = Len(b.files)
    /\ SumOver(a.files, "additions") = SumOver(b.files, "additions")
    /\ SumOver(a.files, "deletions") = SumOver(b.files, "deletions")
    /\ \A i \in 1..SampleFiles :
          /\ (i <= Len(a.files)) <=> (i <= Len(b.files))
          /\ i <= Len(a.files) /\ i <= Len(b.files) =>
                a.files[i].filename = b.files[i].filename

\* C6: two requests that agree on the five things have the same cache key,
\* and a get for one returns the entry set for the other.
C6_FingerprintDeterminism ==
    (args # NoValue /\ SameFive(args.a, args.b)) =>
        /\ GenerateCacheKey(args.a) = GenerateCacheKey(args.b)
        /\ ret.op = "get" => ret.value = Hit(lastSet[GenerateCacheKey(args.a)].data)

C6_Witness ==
    /\ args # NoValue
    /\ args.a = RB
    /\ args.b = RB2
    /\ SameFive(args.a, args.b)
    /\ ret.op = "get"
    /\ ret.value.hit

\* C7: at every attempt index at which the loop still retries, the delay
\* slept after a rate-limit failure is longer than the delay after a generic
\* failure at that index.
C7_RateLimitDelayLonger ==
    pc = "sleeping" =>
        /\ attempt < max_retries - 1
        /\ Last(outcomes) = "rate" => wait_time > GenericWait(attempt)
        /\ Last(outcomes) # "rate" => wait_time < RateLimitWait(attempt)

C7_Witness ==
    /\ pc = "sleeping"
    /\ Last(outcomes) = "rate"
    /\ wait_time = RateLimitCap
    /\ \E i \in 1..Len(sleeps) :
          /\ outcomes[sleeps[i].attempt + 1] \in GenericKinds
          /\ sleeps[i].seconds > 1

\* C8: a rate-limited failure before the last attempt is followed by a sleep
\* and then the next attempt; a rate-limited failure at the last attempt
\* raises the rate-limit error, which is not the exhausted-retries error.
C8_RateLimitedFailure ==
    (endpoint = "direct" /\ outcomes # <<>> /\ Last(outcomes) = "rate") =>
        /\ pc \in {"sleeping", "attempting", "finished"}
        /\ pc = "sleeping" =>
              /\ Len(outcomes) < max_retries
              /\ attempt = Len(outcomes) - 1
              /\ wait_time > 0
        /\ pc = "attempting" =>
              /\ attempt = Len(outcomes)
              /\ attempt < max_retries
              /\ sleeps # <<>>
              /\ Last(sleeps).attempt = attempt - 1
        /\ pc = "finished" =>
              /\ Len(outcomes) = max_retries
              /\ outcome.kind = "raise"
              /\ outcome.error.text = RateLimitText
              /\ outcome.error.text \notin ExhaustedTexts(max_retries)

C8_Witness ==
    /\ endpoint = "direct"
    /\ pc = "finished"
    /\ max_retries = DefaultMaxRetries
    /\ outcomes = <<"rate", "rate", "rate">>
    /\ Len(sleeps) = 2
    /\ outcome.kind = "raise"
    /\ outcome.error.text = RateLimitText

Terminal ==
    /\ pc = "finished"
    /\ \/ outcome.kind = "return" /\ outcome.via = "parsed"
       \/ outcome.kind = "return" /\ outcome.via = "fallback"
       \/ outcome.kind = "raise"

\* C9: every invocation ends, returning a parsed result, returning the
\* fallback or raising, after at most max_retries provider calls and at
\* most max_retries - 1 sleeps.
C9_Termination ==
    /\ [](Len(outcomes) <= max_retries /\ Len(sleeps) <= max_retries - 1)
    /\ [](pc = "finished" => Terminal)
    /\ [](pc \in {"attempting", "sleeping"} => outcome = NoOutcome)
    /\ (pc \in {"attempting", "sleeping"}) ~> Terminal

C9_Witness ==
    /\ Terminal
    /\ max_retries = MaxRetriesLive
    /\ Len(outcomes) = max_retries
    /\ Len(sleeps) = max_retries - 1
    /\ outcome.kind = "return"
    /\ outcome.via = "fallback"

\* C10: a get for a key whose last set is at most TTL seconds old returns
\* what that set stored, whether the set found the key absent, fresh or
\* expired; right after a set the entry holds the new result with age zero.
C10_SetThenGet ==
    /\ (ret.op = "get" /\ Fresh(RetKey)) => ret.value = Hit(lastSet[RetKey].data)
    /\ ret.op = "set" =>
          /\ RetKey \in DOMAIN cache
          /\ cache[RetKey].data = lastSet[RetKey].data
          /\ cache[RetKey].timestamp = now

C10_Witness ==
    /\ ret.op = "get"
    /\ ret.value.hit
    /\ lastSet[RetKey].at = now
    /\ lastSet[RetKey].found = "expired"
    /\ \E k \in DOMAIN lastSet : lastSet[k].found = "fresh" /\ k \in DOMAIN cache

\* The keys stats() lists
Listed(st) == {e.key : e \in st.entries}

\* A key whose last set is more than TTL seconds old
Expired(k) == k \in DOMAIN lastSet /\ now - lastSet[k].at > TTL

\* C11: a get for a key whose last set is more than TTL seconds old returns
\* absent and deletes the entry (one entry fewer), and a stats() taken right
\* after that get does not list the key; a get for a key whose last set is at
\* most TTL seconds old leaves the entry in place.
C11_GetStep ==
    ret'.op = "get" =>
        LET k == GenerateCacheKey(ret'.pr)
        IN  /\ Expired(k) =>
                  /\ ret'.value = Miss
                  /\ k \notin DOMAIN cache'
                  /\ k \in DOMAIN cache =>
                        /\ cache' = Remove(cache, k)
                        /\ CacheStats(cache', now').total_entries
                              = CacheStats(cache, now).total_entries - 1
            /\ Fresh(k) => k \in DOMAIN cache /\ cache' = cache

C11_StatsStep ==
    (ret.op = "get" /\ Expired(RetKey) /\ ret'.op = "stats") =>
        /\ RetKey \notin Listed(ret'.value)
        /\ ret'.value.total_entries = Cardinality(DOMAIN cache)
        /\ Listed(ret'.value) = DOMAIN cache

C11_TTLExpiry == [][C11_GetStep /\ C11_StatsStep]_vars

C11_Witness ==
    /\ ret.op = "get"
    /\ Expired(RetKey)
    /\ ret.value = Miss
    /\ ret.evicted = {RetKey}
    /\ now - lastSet[RetKey].at = TTL + 1
    /\ DOMAIN cache # {}

\* C12: right after a set the cache holds no entry older than TTL, and the
\* set left every other entry of age at most TTL as it was.
C12_SetStep ==
    ret'.op = "set" =>
        /\ \A k \in DOMAIN cache' : now' - cache'[k].timestamp <= TTL
        /\ \A k \in DOMAIN cache \ {GenerateCacheKey(ret'.pr)} :
              now - cache[k].timestamp <= TTL =>
                  k \in DOMAIN cache' /\ cache'[k] = cache[k]

C12_SweepOnSet == [][C12_SetStep]_vars

C12_Witness ==
    /\ ret.op = "set"
    /\ ret.swept # {}
    /\ RetKey \notin ret.swept
    /\ \A k \in ret.swept : now - lastSet[k].at = TTL + 1

\* Handler h has a request and has not answered it
Pending(h) == tasks[h].pc \notin {"idle", "done"}

\* C13: while one handler is in a backoff delay, a handler with a request for
\* another cache key can take its next step.
C13_BackoffIsolation ==
    \A h, g \in Handlers :
        (/\ h # g
         /\ tasks[h].pc = "sleeping"
         /\ Pending(g)
         /\ TaskKey(g) # TaskKey(h)) => ENABLED Run(g)

\* Handler h has observed a cache miss and not yet written the cache
MissedInFlight(h) == tasks[h].pc \in {"service", "sleeping", "set_put"}

\* C14: when a request has missed the cache and its analysis is in flight, a
\* request with the same key that waits with it can observe its miss too, so
\* that both call the provider and both write the cache.
C14_SameKeyMissesBothProceed ==
    \A h, g \in Handlers :
        (/\ h # g
         /\ MissedInFlight(h)
         /\ tasks[g].pc = "queued"
         /\ TaskKey(g) = TaskKey(h)
         /\ TaskKey(g) \notin DOMAIN cache) => ENABLED GetCheck(g)

\* No state has two handlers past a cache miss and before their write
NeverTwoInFlight ==
    \A h, g \in Handlers : (MissedInFlight(h) /\ MissedInFlight(g)) => h = g

\* The positions inside get and set: after the first statement of the
\* operation that reads the cache, before its last
MidOperation == {"get_read", "get_del", "sweep_scan", "sweep_del"}

\* C15: every get and every set (with its sweep) runs without another handler
\* running in between: a handler inside an operation holds the thread, the
\* entry it tested or stored is still the one in the cache, the keys it is
\* about to delete are still there, and no operation fails on a missing key.
C15_CacheOpsAtomic ==
    \A h \in Handlers :
        LET t == tasks[h]
        IN  /\ t.pc \in MidOperation =>
                  /\ running = h
                  /\ \A g \in Handlers \ {h} : tasks[g].pc \in {"idle", "queued", "done"}
            /\ t.pc = "get_read" => TaskKey(h) \in DOMAIN cache
            /\ t.pc = "get_del" =>
                  TaskKey(h) \in DOMAIN cache /\ cache[TaskKey(h)] = t.seen
            /\ t.pc \in {"sweep_scan", "sweep_del"} =>
                  /\ TaskKey(h) \in DOMAIN cache
                  /\ cache[TaskKey(h)].data = t.context
            /\ t.pc = "sweep_del" => t.expired \subseteq DOMAIN cache
            /\ t.pc = "done" => t.result.status # 500

C15_Witness ==
    \E h, g \in Handlers :
        /\ h # g
        /\ tasks[h].pc = "get_del"
        /\ tasks[g].pc = "queued"
        /\ TaskKey(g) = TaskKey(h)
        /\ \E k \in DOMAIN cache : k # TaskKey(h)

\* C16: a parse failure before the last attempt is followed by a sleep of
\* positive length before the next provider call.
C16_ParseRetryBacksOff ==
    \A i \in 1..Len(outcomes) :
        (outcomes[i] \in {"json", "schema"} /\ (i < Len(outcomes) \/ pc = "attempting")) =>
            \E j \in 1..Len(sleeps) : sleeps[j].attempt = i - 1 /\ sleeps[j].seconds > 0

\* The sum of additions plus deletions over all files of the request the
\* fallback was built for
Volume == SumOver(ret.pr.files, "additions") + SumOver(ret.pr.files, "deletions")

\* C17: the fallback's priority and estimated time follow the volume bands
\* V < 50, 50 <= V < 200, 200 <= V < 500, V >= 500.
C17_FallbackBands ==
    (ret.op = "fallback" /\ ~ret.raised) =>
        LET c == ret.context
        IN  /\ Volume < 50 =>
                  c.review_priority = "low" /\ c.estimated_review_time = "5-10 minutes"
            /\ (50 <= Volume /\ Volume < 200) =>
                  c.review_priority = "medium" /\ c.estimated_review_time = "15-25 minutes"
            /\ (200 <= Volume /\ Volume < 500) =>
                  c.review_priority = "high" /\ c.estimated_review_time = "30-45 minutes"
            /\ Volume >= 500 =>
                  c.review_priority = "critical" /\ c.estimated_review_time = "1+ hours"

C17_Witness ==
    /\ ret.op = "fallback"
    /\ ~ret.raised
    /\ Volume = 200
    /\ Len(ret.pr.files) > 1
    /\ ret.context.review_priority = "high"

Priorities == {"low", "medium", "high", "critical"}

\* C18: for a request with at least one file, any description and any raw
\* text, the fallback is built without error, has the eight fields, a
\* priority of the four, a non-empty estimated time, and lists its areas and
\* key changes from the first five files at most.
C18_FallbackTotal ==
    ret.op = "fallback" =>
        /\ ~ret.raised
        /\ LET c == ret.context
               fs == ret.pr.files
               n == IF Len(fs) < 5 THEN Len(fs) ELSE 5
           IN  /\ DOMAIN c = ContextFields
               /\ c.review_priority \in Priorities
               /\ c.estimated_review_time # ""
               /\ c.summary # ""
               /\ c.purpose # <<>>
               /\ Len(c.purpose) <= 200
               /\ c.testing_focus # <<>>
               /\ c.potential_risks # <<>>
               /\ Len(c.affected_areas) = n
               /\ Len(c.key_changes) = n
               /\ \A i \in 1..n :
                     /\ c.affected_areas[i] = fs[i].filename[1]
                     /\ c.key_changes[i] =
                           PathStr(fs[i].filename) \o " (" \o fs[i].status \o ")"

C18_Witness ==
    /\ ret.op = "fallback"
    /\ ~ret.raised
    /\ Len(ret.pr.files) = 6
    /\ ret.pr.description = <<>>
    /\ ret.raw = <<>>
    /\ Len(ret.context.key_changes) = 5
    /\ ret.context.purpose = <<"No description provided">>

\* C19: every result analyze_pr returns has a priority of the four; a
\* provider record with another priority is no successful parse.
C19_PriorityEnum ==
    (pc = "finished" /\ outcome.kind = "return") =>
        outcome.context.review_priority \in Priorities

\* C20: the delay after a generic failure at the k-th attempt is
\* min(2^(k-1), 10) seconds, after a rate-limited failure min(2^(k+1), 30).
DelayAt(k, kind) ==
    IF kind = "rate"
    THEN IF 2^(k + 1) < 30 THEN 2^(k + 1) ELSE 30
    ELSE IF 2^(k - 1) < 10 THEN 2^(k - 1) ELSE 10

C20_BackoffCaps ==
    /\ \A j \in 1..Len(sleeps) :
          LET k == sleeps[j].attempt + 1
          IN  /\ sleeps[j].seconds = DelayAt(k, outcomes[k])
              /\ outcomes[k] = "rate" => sleeps[j].seconds <= 30
              /\ outcomes[k] # "rate" => sleeps[j].seconds <= 10
    /\ pc = "sleeping" => wait_time = DelayAt(attempt + 1, Last(outcomes))

C20_Witness ==
    /\ pc = "finished"
    /\ \E i, j \in 1..Len(sleeps) :
          /\ outcomes[sleeps[i].attempt + 1] = "rate"
          /\ sleeps[i].seconds = 30
          /\ sleeps[i].attempt = 3
          /\ outcomes[sleeps[j].attempt + 1] # "rate"
          /\ sleeps[j].seconds = 10
          /\ sleeps[j].attempt = 4

\* The record a completion carries when it is one of the two complete
\* documents, bare or inside a code fence
ParsedFrom(o) ==
    IF \E i \in 1..Len(o.content) : o.content[i] = "doc_full"
    THEN ContextA ELSE ContextB

\* C21: a provider call that returns a text which parses into a complete
\* record ends the invocation at that attempt: the record is returned as it
\* was parsed, whatever the earlier attempts were, and no provider call and
\* no sleep follows it.
C21_FirstSuccessEnds ==
    \A i \in 1..Len(outcomes) :
        outcomes[i] = "ok" =>
            /\ i = Len(outcomes)
            /\ pc = "finished"
            /\ attempt = i - 1
            /\ wait_time = 0
            /\ outcome = Returned("parsed", ParsedFrom(called))
            /\ \A j \in 1..Len(sleeps) : sleeps[j].attempt < i - 1

C21_Witness ==
    /\ endpoint = "direct"
    /\ pc = "finished"
    /\ max_retries = MaxRetriesBound
    /\ outcomes = <<"rate", "json", "ok">>
    /\ Len(sleeps) = 1
    /\ outcome = Returned("parsed", ContextB)

\* A request with no file or with more than 100 files
BadFileCount(r) == Len(r.files) = 0 \/ Len(r.files) > 100

\* C22: a request to the analyze endpoint with no file or with more than 100
\* files is answered with a client error, and its handling calls no cache
\* method, changes no cache entry and starts no invocation of the provider;
\* no invocation is ever in progress for such a request.
C22_RejectStep ==
    (ret'.op = "analyze" /\ BadFileCount(ret'.pr)) =>
        /\ ret'.status \in {400, 422}
        /\ cache_calls' = <<>>
        /\ cache' = cache
        /\ lastSet' = lastSet
        /\ pc = "idle"
        /\ pc' = "idle"
        /\ outcomes' = <<>>
        /\ called' = NoValue

C22_NoInvocation ==
    (pc # "idle" /\ endpoint = "analyze") => ~BadFileCount(pr_data)

C22_InvalidInputBeforeCache == [][C22_RejectStep]_vars /\ []C22_NoInvocation

C22_Witness ==
    /\ ret.op = "analyze"
    /\ ret.pr = RTooMany
    /\ ret.status = 422
    /\ cache_calls = <<>>
    /\ \E k \in DOMAIN cache : now - cache[k].timestamp > TTL

\* C23: two fallback syntheses for requests with the same files and the same
\* description give equal results, whatever the provider's unparseable text,
\* the attempts before, the clock and the cache contents were at each.
C23_FallbackReproducible ==
    ("first" \in DOMAIN args /\ args.first # NoValue
        /\ pc = "finished" /\ outcome.kind = "return" /\ outcome.via = "fallback"
        /\ pr_data.files = args.first.pr.files
        /\ pr_data.description = args.first.pr.description) =>
            outcome.context = args.first.context

C23_Witness ==
    /\ "first" \in DOMAIN args
    /\ args.first # NoValue
    /\ pc = "finished"
    /\ outcome.kind = "return"
    /\ outcome.via = "fallback"
    /\ pr_data.files = args.first.pr.files
    /\ pr_data.description = args.first.pr.description
    /\ pr_data.title # args.first.pr.title
    /\ called.content # args.first.raw
    /\ outcomes # args.first.outcomes
    /\ now # args.first.at
    /\ DOMAIN cache # args.first.cached
    /\ outcome.context = args.first.context

\* The step creates the entry of key k or replaces it
Written(k) ==
    /\ k \in DOMAIN cache'
    /\ k \notin DOMAIN cache \/ cache'[k] # cache[k]

\* The handler has called cache_service.set for the current request
CalledSet(calls) == \E i \in 1..Len(calls) : calls[i].op = "set"

\* C24: a request to the analyze endpoint that ends in an error (retries
\* exhausted, rate limit, provider service not available, request rejected)
\* creates and overwrites no cache entry and calls no set; an entry is
\* written only by the handler whose invocation returned a result, under that
\* request's key and with that result.
C24_FailureStep ==
    (ret'.op = "analyze" /\ ret'.status # 200) =>
        /\ \A k \in DOMAIN cache' : ~Written(k)
        /\ lastSet' = lastSet
        /\ ~CalledSet(cache_calls')

C24_WriteStep ==
    \A k \in DOMAIN cache' :
        Written(k) =>
            /\ pc = "finished"
            /\ endpoint = "analyze"
            /\ outcome.kind = "return"
            /\ k = GenerateCacheKey(pr_data)
            /\ cache'[k].data = outcome.context
            /\ ret' = Ok(pr_data, outcome.context, FALSE)

C24_CacheUnchangedOnFailure == [][C24_FailureStep /\ C24_WriteStep]_vars

C24_Witness ==
    /\ ret.op = "analyze"
    /\ ret.status = 422
    /\ ret.detail = RateLimitText
    /\ RetKey \in DOMAIN lastSet
    /\ RetKey \notin DOMAIN cache
    /\ DOMAIN cache # {}
    /\ ~CalledSet(cache_calls)

\* C25: once max_retries attempts are made, what the invocation ends in is
\* decided by the final attempt alone: a generic failure raises the
\* exhausted-retries error, a rate-limited failure raises the rate-limit
\* error, and a completion that could not be parsed returns the fallback,
\* whatever the earlier attempts were.
C25_FinalAttemptDecides ==
    (pc = "finished" /\ Len(outcomes) = max_retries) =>
        /\ Last(outcomes) \in GenericKinds =>
              /\ outcome.kind = "raise"
              /\ outcome.error.text \in ExhaustedTexts(max_retries)
        /\ Last(outcomes) = "rate" =>
              /\ outcome.kind = "raise"
              /\ outcome.error.text = RateLimitText
        /\ (called.type = "response" /\ Last(outcomes) # "ok") =>
              /\ outcome.kind = "return"
              /\ outcome.via = "fallback"

\* A result with the fixed placeholder lists of the fallback
Degraded(c) ==
    /\ c.testing_focus = <<"Test the modified functionality",
                           "Check for breaking changes", "Verify edge cases">>
    /\ c.potential_risks = <<"Changes may affect existing functionality",
                             "Review for potential bugs">>

\* C26: when the invocation of an analyze request returns the synthesized
\* fallback, the handler stores it under the request's key with the current
\* time; while that entry is at most TTL seconds old every request with the
\* key is answered with it, marked as cached, and no provider call is made
\* for the key.
C26_StoreStep ==
    (/\ pc = "finished"
     /\ endpoint = "analyze"
     /\ outcome.kind = "return"
     /\ outcome.via = "fallback"
     /\ pc' = "idle") =>
        LET k == GenerateCacheKey(pr_data)
        IN  /\ Degraded(outcome.context)
            /\ k \in DOMAIN cache'
            /\ cache'[k].data = outcome.context
            /\ cache'[k].timestamp = now
            /\ ret' = Ok(pr_data, outcome.context, FALSE)

C26_ServeStep ==
    (/\ ret'.op = "analyze"
     /\ ValidRequest(ret'.pr)
     /\ pc = "idle"
     /\ GenerateCacheKey(ret'.pr) \in DOMAIN cache
     /\ now - cache[GenerateCacheKey(ret'.pr)].timestamp <= TTL
     /\ Degraded(cache[GenerateCacheKey(ret'.pr)].data)) =>
        /\ ret' = Ok(ret'.pr, cache[GenerateCacheKey(ret'.pr)].data, TRUE)
        /\ pc' = "idle"
        /\ outcomes' = <<>>
        /\ called' = NoValue
        /\ cache' = cache

C26_NoCallWhileFresh ==
    (pc # "idle" /\ endpoint = "analyze") =>
        LET k == GenerateCacheKey(pr_data)
        IN  ~(k \in DOMAIN cache /\ now - cache[k].timestamp <= TTL
                 /\ Degraded(cache[k].data))

C26_DegradedResultsCached ==
    [][C26_StoreStep /\ C26_ServeStep]_vars /\ []C26_NoCallWhileFresh

C26_Witness ==
    /\ ret.op = "analyze"
    /\ ret.status = 200
    /\ ret.cached
    /\ Degraded(ret.context)
    /\ ret.pr = RA2
    /\ lastSet[RetKey].by = RA
    /\ ret.context = lastSet[RetKey].data
    /\ now - lastSet[RetKey].at = TTL

\* C27: a get that hits leaves the cache as it is, so an entry keeps the
\* creation time and the value of its set; for an entry set once at t0, a
\* get after t0 + TTL returns absent however many gets hit it before.
C27_HitStep ==
    (ret'.op = "get" /\ ret'.value.hit) =>
        /\ cache' = cache
        /\ ret'.value.data = cache[GenerateCacheKey(ret'.pr)].data

C27_EntryAsSet ==
    \A k \in DOMAIN cache :
        /\ k \in DOMAIN lastSet
        /\ cache[k].timestamp = lastSet[k].at
        /\ cache[k].data = lastSet[k].data

C27_LateGetAbsent ==
    (ret.op = "get" /\ RetKey \in DOMAIN lastSet /\ now > lastSet[RetKey].at + TTL) =>
        ret.value = Miss

C27_ReadsDoNotExtend ==
    [][C27_HitStep]_vars /\ [](C27_EntryAsSet /\ C27_LateGetAbsent)

C27_Witness ==
    /\ "hits" \in DOMAIN args
    /\ args.hits = MaxHits
    /\ ret.op = "get"
    /\ ret.value = Miss
    /\ ret.evicted = {RetKey}
    /\ DOMAIN lastSet = {RetKey}
    /\ now = lastSet[RetKey].at + TTL + 1

\* C28: a get removes at most the entry of the key it looks up and leaves
\* every other entry, expired or not, as it was; stats changes nothing and
\* lists every entry of the cache with its age, the expired ones included.
C28_GetStep ==
    ret'.op = "get" =>
        LET k == GenerateCacheKey(ret'.pr)
        IN  /\ DOMAIN cache \ DOMAIN cache' \subseteq {k}
            /\ DOMAIN cache' \subseteq DOMAIN cache
            /\ \A j \in DOMAIN cache' : cache'[j] = cache[j]

C28_StatsStep ==
    ret'.op = "stats" =>
        /\ cache' = cache
        /\ lastSet' = lastSet
        /\ ret'.value.total_entries = Cardinality(DOMAIN cache)
        /\ Listed(ret'.value) = DOMAIN cache
        /\ \A e \in ret'.value.entries :
              e.age_seconds = now - cache[e.key].timestamp

C28_LazyLocalEviction == [][C28_GetStep /\ C28_StatsStep]_vars

C28_Witness ==
    /\ ret.op = "stats"
    /\ \E e \in ret.value.entries : e.age_seconds > TTL
    /\ \E k \in DOMAIN lastSet : Expired(k) /\ k \notin DOMAIN cache
    /\ ret.value.total_entries = 1

\* C29: a request to the quick endpoint calls no cache method and leaves the
\* cache as it is, from its arrival to its answer, on success and on
\* failure; it is answered 200 only with what an invocation of the provider
\* pipeline returned for it, also when the cache holds a fresh entry for its
\* key; and the invocation is given the first 10 files and the first 5
\* commits at most.
C29_FrameStep ==
    (ret'.op = "quick" \/ (endpoint' = "quick" /\ pc' # "idle")) =>
        /\ cache' = cache
        /\ lastSet' = lastSet
        /\ cache_calls' = <<>>

C29_AnswerStep ==
    /\ (ret'.op = "quick" /\ ret'.status = 200) =>
          /\ pc = "finished"
          /\ endpoint = "quick"
          /\ outcomes # <<>>
          /\ called.type = "response"
          /\ ret'.context = outcome.context
    /\ (ret'.op = "quick" /\ pc = "idle") =>
          ~ValidRequest(ret'.pr) \/ ~api_key

C29_Truncated ==
    (endpoint = "quick" /\ pc # "idle") =>
        /\ Len(InvokedWith.files) <= 10
        /\ Len(InvokedWith.commits) <= 5
        /\ \A i \in 1..Len(InvokedWith.files) : InvokedWith.files[i] = pr_data.files[i]
        /\ Len(pr_data.files) >= 10 => Len(InvokedWith.files) = 10

C29_QuickBypassesCache ==
    [][C29_FrameStep /\ C29_AnswerStep]_vars /\ []C29_Truncated

C29_Witness ==
    /\ ret.op = "quick"
    /\ ret.status = 200
    /\ RetKey \in DOMAIN cache
    /\ now - cache[RetKey].timestamp < TTL
    /\ ret.context # cache[RetKey].data
    /\ cache_calls = <<>>

=============================================================================
